---- MODULE Spec2Model ----
(***************************************************************************)
(* KawaiiBot daily-webhook subsystem: scheduler.Scheduler (lifecycle,      *)
(* run-loop, retry sequence, ForceSend), webhook.DailyWebhook (enabled     *)
(* flag), storage.Storage (persisted flag) and the bot's webhook command.  *)
(*                                                                         *)
(* The specifications share the variables:                                 *)
(*   Spec      the Scheduler's lifecycle and the Sender's flag driven by   *)
(*             an arbitrary client (Start, Stop, SetEnabled, Toggle,       *)
(*             cancellation).  The loop's timer is abstract: an armed      *)
(*             timer may elapse at any moment.                             *)
(*   ForceSpec ForceSend and its tasks beside a started run-loop.          *)
(*   SpecTime  getTimeUntilNextSend applied to every instant of a window.  *)
(*   BotSpec   the bot process: bot.New, Bot.Start, the webhook command    *)
(*             handlers, the run-loop, Bot.Stop.  FairBotSpec adds the     *)
(*             fairness of the Go scheduler and of the passing of time.    *)
(*   PromptSpec Spec with goroutines that run promptly: a timer elapses    *)
(*             only while no other case of the loop's select is ready.     *)
(*   ClockSpec the run-loop under a clock, in a zone with at most one      *)
(*             change of clocks, never stopped and never cancelled.        *)
(*   LockSpec  Start and Stop statement by statement under s.mutex,        *)
(*             called by concurrent goroutines.                            *)
(*   StopSpec  Start and Stop beside prompt run-loops, noting how far each *)
(*             cycle had got when Stop closed the stop channel.            *)
(*   HeldSpec  LockSpec with IsRunning, beside run-loops in their cycles.  *)
(***************************************************************************)
EXTENDS Integers, Sequences, FiniteSets

\* ---------------------------------------------------------------- bounds
\* run-loops ever launched (Start, Stop, Start; a further Stop panics)
MaxLoops == 2
\* ForceSend tasks ever launched
MaxForce == 1
\* concurrently running webhook command handlers (discordgo runs each in its own goroutine)
NHandlers == 2
\* goroutines calling Start and Stop concurrently
NCallers == 2
\* Start and Stop calls made in all
MaxCalls == 4
\* clock resolution of SpecTime: ticks per hour
TicksPerHour == 4
\* days covered by the instants of SpecTime
MaxDays == 2

\* ------------------------------------------------------ program constants
maxRetries == 3
BackoffMinutes == 5
TargetHour == 5
HoursPerDay == 24

VARIABLES
    running,      \* Scheduler.running
    stopChan,     \* Scheduler.stopChan: "open" or "closed"
    panicked,     \* the process died of an unrecovered panic
    ctxDone,      \* the context passed to Start is cancelled
    enabled,      \* DailyWebhook.enabled
    webhookURL,   \* DailyWebhook.webhookURL: "" or "url"
    lastSent,     \* DailyWebhook.lastSent: number of stamps written
    loops,        \* the schedulingRoutine goroutines, in launch order
    nloops,       \* how many were launched
    force,        \* the goroutines launched by ForceSend, in launch order
    nforce,       \* how many were launched
    lastCall,     \* the last Scheduler call that returned, and its result
    settings,     \* Storage.settings.DailyWebhookEnabled
    file,         \* the flag stored in bot_settings.json
    handlers,     \* the webhook command handlers
    botPhase,     \* main's position: "new", "open", "started", "stopped", "failed"
    toggledOn,    \* the last webhook command to finish turned the feature on
    now,          \* SpecTime: the clock read by getTimeUntilNextSend, in ticks
    timeUntil,    \* SpecTime: <<>> or <<the duration returned>>, in ticks
    zone,         \* the local zone: hours each day gains over HoursPerDay
    mutex,        \* Scheduler.mutex: 0 when free, else the caller holding it
    callers,      \* LockSpec: the goroutines calling Start and Stop
    ghost,        \* LockSpec: the calls applied one at a time, in lock order
    cut           \* StopSpec: for each run-loop, the Send calls its sequence had
                  \* made when Stop closed the stop channel (-1: in no sequence)

schedVars == <<running, stopChan, panicked, ctxDone, loops, nloops, force, nforce, lastCall>>
senderVars == <<enabled, webhookURL, lastSent>>
botVars == <<settings, file, handlers, botPhase, toggledOn>>
timeVars == <<now, timeUntil, zone>>
lockVars == <<mutex, callers, ghost>>
histVars == <<cut>>
vars == <<schedVars, senderVars, botVars, timeVars, lockVars, histVars>>

LoopIds == 1..MaxLoops
ForceIds == 1..MaxForce
HandlerIds == 1..NHandlers
CallerIds == 1..NCallers

\* a goroutine that does not exist yet
NoTask == [pc |-> "none", i |-> 0, calls |-> 0, wait |-> 0, fired |-> FALSE,
           armed |-> 0, at |-> -1, since |-> 0, refused |-> FALSE,
           outcome |-> "none"]
NoCall == [op |-> "none", err |-> FALSE]
IdleHandler == [pc |-> "idle", newState |-> FALSE, data |-> FALSE]
IdleCaller == [pc |-> "idle", op |-> "none", err |-> FALSE, want |-> FALSE,
               waited |-> FALSE, val |-> FALSE]
NoGhost == [running |-> FALSE, closed |-> FALSE, launched |-> 0, panicked |-> FALSE,
            calls |-> 0]

\* ------------------------------------------------------------- the Sender
IsEnabledNoURLCheck == enabled
IsEnabledURLOnly == webhookURL # ""

\* DailyWebhook.IsEnabled
IsEnabled == enabled /\ webhookURL # ""

\* ------------------------------------------------ the retry sequence
\* A task is a record: pc is its position in sendDailyWebhook
\*   "check"     about to test IsEnabled (line 131)
\*   "call"      about to call SendDailyWebhook for attempt i+1 (line 144)
\*   "inflight"  inside SendDailyWebhook, past its own IsEnabled test
\*   "sleep"     in time.Sleep(wait) after failed attempt i+1
\*   "ret"       sendDailyWebhook returned
\* calls counts the SendDailyWebhook calls of the sequence.  outcome is what
\* the sequence logged when it returned: "skipped" (line 132), "sent" (line
\* 146), "failed" (line 160); "none" while it runs.  Three instants of the
\* clock are kept: armed, when the loop last read the clock and armed its
\* timer; at, when the sequence began (-1: never); since, when it went to
\* sleep.  refused tells that the SendDailyWebhook call before the sleep
\* returned at its own IsEnabled test.

BeginSequence(t) ==
    [t EXCEPT !.pc = "check", !.i = 0, !.calls = 0, !.wait = 0, !.outcome = "none",
              !.at = now, !.refused = FALSE]

CheckEnabledSkipped(t) == [t EXCEPT !.pc = "call", !.i = 0]

\* lines 131-134 and the loop header of line 142
CheckEnabled(t) ==
    IF ~IsEnabled
    THEN [t EXCEPT !.pc = "ret", !.outcome = "skipped"]
    ELSE [t EXCEPT !.pc = "call", !.i = 0]

AfterFailureFlatBackoff(t) ==
    IF t.i < maxRetries - 1
    THEN [t EXCEPT !.pc = "sleep", !.wait = BackoffMinutes, !.since = now]
    ELSE [t EXCEPT !.pc = "ret", !.wait = 0, !.outcome = "failed"]

AfterFailureOneMore(t) ==
    IF t.i < maxRetries
    THEN [t EXCEPT !.pc = "sleep", !.wait = (t.i + 1) * BackoffMinutes, !.since = now]
    ELSE [t EXCEPT !.pc = "ret", !.wait = 0, !.outcome = "failed"]

\* lines 150-158: after a failed attempt
AfterFailure(t) ==
    IF t.i < maxRetries - 1
    THEN [t EXCEPT !.pc = "sleep", !.wait = (t.i + 1) * BackoffMinutes, !.since = now]
    ELSE [t EXCEPT !.pc = "ret", !.wait = 0, !.outcome = "failed"]

EnterSendNoCheck(t) == [t EXCEPT !.calls = t.calls + 1, !.pc = "inflight"]

\* line 144 and webhook.go lines 98-101: the call, and its test of IsEnabled
EnterSend(t) ==
    LET c == [t EXCEPT !.calls = t.calls + 1]
    IN  IF ~IsEnabled
        THEN AfterFailure([c EXCEPT !.refused = TRUE])
        ELSE [c EXCEPT !.pc = "inflight"]

EndSendNoReturn(t, ok) ==
    IF ok
    THEN IF t.i < maxRetries - 1
         THEN [t EXCEPT !.pc = "call", !.i = t.i + 1, !.outcome = "sent"]
         ELSE [t EXCEPT !.pc = "ret", !.wait = 0, !.outcome = "sent"]
    ELSE AfterFailure(t)

\* the fetch and the POST end: nil (lines 145-148) or an error
EndSend(t, ok) ==
    IF ok THEN [t EXCEPT !.pc = "ret", !.wait = 0, !.outcome = "sent"]
    ELSE AfterFailure(t)

\* time.Sleep returns, i++ (line 142)
WakeUp(t) == [t EXCEPT !.pc = "call", !.i = t.i + 1, !.wait = 0, !.refused = FALSE]

\* sendWebhook lines 213-215: stamp lastSent on a 2xx answer
StampAlways(ok) == IF lastSent < 1 THEN lastSent + 1 ELSE lastSent

Stamp(ok) == IF ok /\ lastSent < 1 THEN lastSent + 1 ELSE lastSent

\* --------------------------------------------------------- the run-loop
\* schedulingRoutine lines 78-84 and 100-102: compute the wait, arm the timer
Rearm(t) == [t EXCEPT !.pc = "select", !.fired = FALSE, !.armed = now, !.refused = FALSE]

LoopAfterExitOnFailure(t) ==
    IF t.pc = "ret"
    THEN IF t.outcome = "failed" THEN [t EXCEPT !.pc = "exitStop"] ELSE Rearm(t)
    ELSE t

\* back in the loop after sendDailyWebhook returned
LoopAfter(t) == IF t.pc = "ret" THEN Rearm(t) ELSE t

\* the goroutine of a ForceSend ends when sendDailyWebhook returns
ForceAfter(t) == IF t.pc = "ret" THEN [t EXCEPT !.pc = "done"] ELSE t

Alive == ~panicked /\ botPhase \notin {"stopped", "failed"}

\* the armed timer elapses: a value is waiting in timer.C
TimerFire(l) ==
    /\ Alive
    /\ loops[l].pc = "select" /\ ~loops[l].fired
    /\ loops' = [loops EXCEPT ![l].fired = TRUE]
    /\ UNCHANGED <<running, stopChan, panicked, ctxDone, nloops, force, nforce, lastCall>>
    /\ UNCHANGED <<senderVars, botVars, timeVars, lockVars, histVars>>

\* select, case <-ctx.Done() (lines 88-90)
LoopSelectCtx(l) ==
    /\ Alive
    /\ loops[l].pc = "select" /\ ctxDone
    /\ loops' = [loops EXCEPT ![l].pc = "exitCtx"]
    /\ UNCHANGED <<running, stopChan, panicked, ctxDone, nloops, force, nforce, lastCall>>
    /\ UNCHANGED <<senderVars, botVars, timeVars, lockVars, histVars>>

\* select, case <-s.stopChan (lines 91-93): a closed channel is always ready
LoopStopAnywhere(l) ==
    /\ Alive
    /\ loops[l].pc \in {"select", "inflight", "sleep"} /\ stopChan = "closed"
    /\ loops' = [loops EXCEPT ![l].pc = "exitStop"]
    /\ UNCHANGED <<running, stopChan, panicked, ctxDone, nloops, force, nforce, lastCall>>
    /\ UNCHANGED <<senderVars, botVars, timeVars, lockVars, histVars>>

LoopSelectStop(l) ==
    /\ Alive
    /\ loops[l].pc = "select" /\ stopChan = "closed"
    /\ loops' = [loops EXCEPT ![l].pc = "exitStop"]
    /\ UNCHANGED <<running, stopChan, panicked, ctxDone, nloops, force, nforce, lastCall>>
    /\ UNCHANGED <<senderVars, botVars, timeVars, lockVars, histVars>>

\* select, case <-timer.C (lines 94-96): the cycle begins
LoopSelectTimer(l) ==
    /\ Alive
    /\ loops[l].pc = "select" /\ loops[l].fired
    /\ loops' = [loops EXCEPT ![l] = BeginSequence([@ EXCEPT !.fired = FALSE])]
    /\ UNCHANGED <<running, stopChan, panicked, ctxDone, nloops, force, nforce, lastCall>>
    /\ UNCHANGED <<senderVars, botVars, timeVars, lockVars, histVars>>

LoopCheck(l) ==
    /\ Alive
    /\ loops[l].pc = "check"
    /\ loops' = [loops EXCEPT ![l] = LoopAfter(CheckEnabled(@))]
    /\ UNCHANGED <<running, stopChan, panicked, ctxDone, nloops, force, nforce, lastCall>>
    /\ UNCHANGED <<senderVars, botVars, timeVars, lockVars, histVars>>

LoopEnterSendLocked(l) ==
    /\ Alive
    /\ loops[l].pc = "call"
    /\ mutex = 0
    /\ mutex' = NCallers + l
    /\ loops' = [loops EXCEPT ![l] = LoopAfter(EnterSend(@))]
    /\ UNCHANGED <<running, stopChan, panicked, ctxDone, nloops, force, nforce, lastCall>>
    /\ UNCHANGED <<senderVars, botVars, timeVars, callers, ghost, histVars>>

LoopEnterSend(l) ==
    /\ Alive
    /\ loops[l].pc = "call"
    /\ loops' = [loops EXCEPT ![l] = LoopAfter(EnterSend(@))]
    /\ UNCHANGED <<running, stopChan, panicked, ctxDone, nloops, force, nforce, lastCall>>
    /\ UNCHANGED <<senderVars, botVars, timeVars, lockVars, histVars>>

LoopEndSend(l) ==
    /\ Alive
    /\ loops[l].pc = "inflight"
    /\ \E ok \in BOOLEAN :
        /\ loops' = [loops EXCEPT ![l] = LoopAfter(EndSend(@, ok))]
        /\ lastSent' = Stamp(ok)
    /\ UNCHANGED <<running, stopChan, panicked, ctxDone, nloops, force, nforce, lastCall>>
    /\ UNCHANGED <<enabled, webhookURL, botVars, timeVars, lockVars, histVars>>

LoopWakeUp(l) ==
    /\ Alive
    /\ loops[l].pc = "sleep"
    /\ loops' = [loops EXCEPT ![l] = WakeUp(@)]
    /\ UNCHANGED <<running, stopChan, panicked, ctxDone, nloops, force, nforce, lastCall>>
    /\ UNCHANGED <<senderVars, botVars, timeVars, lockVars, histVars>>

LoopStep(l) ==
    \/ LoopSelectCtx(l)
    \/ LoopSelectStop(l)
    \/ LoopSelectTimer(l)
    \/ LoopCheck(l)
    \/ LoopEnterSend(l)
    \/ LoopEndSend(l)
    \/ LoopWakeUp(l)

\* --------------------------------------------------- the ForceSend tasks
ForceCheck(f) ==
    /\ Alive
    /\ force[f].pc = "check"
    /\ force' = [force EXCEPT ![f] = ForceAfter(CheckEnabled(@))]
    /\ UNCHANGED <<running, stopChan, panicked, ctxDone, loops, nloops, nforce, lastCall>>
    /\ UNCHANGED <<senderVars, botVars, timeVars, lockVars, histVars>>

ForceEnterSend(f) ==
    /\ Alive
    /\ force[f].pc = "call"
    /\ force' = [force EXCEPT ![f] = ForceAfter(EnterSend(@))]
    /\ UNCHANGED <<running, stopChan, panicked, ctxDone, loops, nloops, nforce, lastCall>>
    /\ UNCHANGED <<senderVars, botVars, timeVars, lockVars, histVars>>

ForceEndSend(f) ==
    /\ Alive
    /\ force[f].pc = "inflight"
    /\ \E ok \in BOOLEAN :
        /\ force' = [force EXCEPT ![f] = ForceAfter(EndSend(@, ok))]
        /\ lastSent' = Stamp(ok)
    /\ UNCHANGED <<running, stopChan, panicked, ctxDone, loops, nloops, nforce, lastCall>>
    /\ UNCHANGED <<enabled, webhookURL, botVars, timeVars, lockVars, histVars>>

ForceWakeUp(f) ==
    /\ Alive
    /\ force[f].pc = "sleep"
    /\ force' = [force EXCEPT ![f] = WakeUp(@)]
    /\ UNCHANGED <<running, stopChan, panicked, ctxDone, loops, nloops, nforce, lastCall>>
    /\ UNCHANGED <<senderVars, botVars, timeVars, lockVars, histVars>>

ForceStep(f) ==
    \/ ForceCheck(f)
    \/ ForceEnterSend(f)
    \/ ForceEndSend(f)
    \/ ForceWakeUp(f)

\* ------------------------------------------------- the Scheduler's calls
\* Start and Stop hold s.mutex from their first to their last statement and
\* block on nothing in between: each is one step.

StartEffectNoRunningGuard ==
    IF ~IsEnabled
    THEN /\ lastCall' = [op |-> "Start", err |-> FALSE]
         /\ UNCHANGED <<running, loops, nloops>>
    ELSE /\ nloops < MaxLoops
         /\ running' = TRUE
         /\ nloops' = nloops + 1
         /\ loops' = [loops EXCEPT ![nloops + 1] = Rearm(NoTask)]
         /\ lastCall' = [op |-> "Start", err |-> FALSE]

\* Scheduler.Start, lines 32-53
StartEffect ==
    IF running
    THEN /\ lastCall' = [op |-> "Start", err |-> TRUE]
         /\ UNCHANGED <<running, loops, nloops>>
    ELSE IF ~IsEnabled
    THEN /\ lastCall' = [op |-> "Start", err |-> FALSE]
         /\ UNCHANGED <<running, loops, nloops>>
    ELSE /\ nloops < MaxLoops
         /\ running' = TRUE
         /\ nloops' = nloops + 1
         /\ loops' = [loops EXCEPT ![nloops + 1] = Rearm(NoTask)]
         /\ lastCall' = [op |-> "Start", err |-> FALSE]

StopEffectNoGuard ==
    IF stopChan = "closed"
    THEN /\ panicked' = TRUE
         /\ UNCHANGED <<running, stopChan, lastCall>>
    ELSE /\ stopChan' = "closed"
         /\ running' = FALSE
         /\ lastCall' = [op |-> "Stop", err |-> FALSE]
         /\ UNCHANGED panicked

\* Scheduler.Stop, lines 56-73.  close of a closed channel panics (line 64);
\* s.ticker is never set, so lines 67-69 do nothing.
StopEffect ==
    IF ~running
    THEN /\ lastCall' = [op |-> "Stop", err |-> TRUE]
         /\ UNCHANGED <<running, stopChan, panicked>>
    ELSE IF stopChan = "closed"
    THEN /\ panicked' = TRUE
         /\ UNCHANGED <<running, stopChan, lastCall>>
    ELSE /\ stopChan' = "closed"
         /\ running' = FALSE
         /\ lastCall' = [op |-> "Stop", err |-> FALSE]
         /\ UNCHANGED panicked

Start ==
    /\ Alive
    /\ StartEffect
    /\ UNCHANGED <<stopChan, panicked, ctxDone, force, nforce>>
    /\ UNCHANGED <<senderVars, botVars, timeVars, lockVars, histVars>>

Stop ==
    /\ Alive
    /\ StopEffect
    /\ UNCHANGED <<ctxDone, loops, nloops, force, nforce>>
    /\ UNCHANGED <<senderVars, botVars, timeVars, lockVars, histVars>>

ForceSendEffectNoGuard ==
    /\ nforce < MaxForce
    /\ nforce' = nforce + 1
    /\ force' = [force EXCEPT ![nforce + 1] = BeginSequence(NoTask)]
    /\ lastCall' = [op |-> "ForceSend", err |-> FALSE]

\* Scheduler.ForceSend, lines 171-178
ForceSendEffect ==
    IF ~IsEnabled
    THEN /\ lastCall' = [op |-> "ForceSend", err |-> TRUE]
         /\ UNCHANGED <<force, nforce>>
    ELSE /\ nforce < MaxForce
         /\ nforce' = nforce + 1
         /\ force' = [force EXCEPT ![nforce + 1] = BeginSequence(NoTask)]
         /\ lastCall' = [op |-> "ForceSend", err |-> FALSE]

ForceSendFiringTimer ==
    /\ Alive
    /\ ForceSendEffect
    /\ loops' = [l \in LoopIds |->
                   IF loops[l].pc = "select" THEN [loops[l] EXCEPT !.fired = TRUE]
                   ELSE loops[l]]
    /\ UNCHANGED <<running, stopChan, panicked, ctxDone, nloops>>
    /\ UNCHANGED <<senderVars, botVars, timeVars, lockVars, histVars>>

ForceSend ==
    /\ Alive
    /\ ForceSendEffect
    /\ UNCHANGED <<running, stopChan, panicked, ctxDone, loops, nloops>>
    /\ UNCHANGED <<senderVars, botVars, timeVars, lockVars, histVars>>

\* the caller's context is cancelled
Cancel ==
    /\ Alive
    /\ ~ctxDone
    /\ ctxDone' = TRUE
    /\ UNCHANGED <<running, stopChan, panicked, loops, nloops, force, nforce, lastCall>>
    /\ UNCHANGED <<senderVars, botVars, timeVars, lockVars, histVars>>

\* DailyWebhook.SetEnabled, lines 55-60
SetEnabled(b) ==
    /\ Alive
    /\ enabled' = b
    /\ UNCHANGED <<webhookURL, lastSent, schedVars, botVars, timeVars, lockVars, histVars>>

\* DailyWebhook.Toggle, lines 63-69
Toggle ==
    /\ Alive
    /\ enabled' = ~enabled
    /\ UNCHANGED <<webhookURL, lastSent, schedVars, botVars, timeVars, lockVars, histVars>>

\* -------------------------------------------------------------- Spec
\* scheduler.New (lines 24-29) over webhook.New (lines 29-45)
SchedInit ==
    /\ running = FALSE
    /\ stopChan = "open"
    /\ panicked = FALSE
    /\ ctxDone = FALSE
    /\ loops = [l \in LoopIds |-> NoTask]
    /\ nloops = 0
    /\ force = [f \in ForceIds |-> NoTask]
    /\ nforce = 0
    /\ lastCall = NoCall
    /\ mutex = 0
    /\ callers = [c \in CallerIds |-> IdleCaller]
    /\ ghost = NoGhost
    /\ cut = [l \in LoopIds |-> -1]

BotIdle ==
    /\ settings = FALSE
    /\ file = FALSE
    /\ handlers = [h \in HandlerIds |-> IdleHandler]
    /\ botPhase = "new"
    /\ toggledOn = FALSE

TimeIdle ==
    /\ now = 0
    /\ timeUntil = <<>>
    /\ zone = [d \in 0..(MaxDays + 1) |-> 0]

Init ==
    /\ SchedInit
    /\ enabled = TRUE
    /\ webhookURL \in {"", "url"}
    /\ lastSent = 0
    /\ BotIdle
    /\ TimeIdle

Next ==
    \/ Start
    \/ Stop
    \/ Cancel
    \/ Toggle
    \/ \E b \in BOOLEAN : SetEnabled(b)
    \/ \E l \in LoopIds : TimerFire(l)
    \/ \E l \in LoopIds : LoopStep(l)

Spec == Init /\ [][Next]_vars

\* --------------------------------------------------------- ForceSpec
\* ForceSend and its tasks beside a started run-loop and the toggle.  The
\* tasks share nothing with Stop and the cancellation but the Sender's flag,
\* so the client of this specification never stops the scheduler.
ForceNext ==
    \/ Start
    \/ ForceSend
    \/ Toggle
    \/ \E b \in BOOLEAN : SetEnabled(b)
    \/ \E l \in LoopIds : TimerFire(l)
    \/ \E l \in LoopIds : LoopSelectTimer(l)
    \/ \E l \in LoopIds : LoopCheck(l)
    \/ \E l \in LoopIds : LoopEnterSend(l)
    \/ \E l \in LoopIds : LoopEndSend(l)
    \/ \E l \in LoopIds : LoopWakeUp(l)
    \/ \E f \in ForceIds : ForceStep(f)

ForceSpec == Init /\ [][ForceNext]_vars

\* -------------------------------------------------------- PromptSpec
\* Spec with goroutines that run promptly.  The wait the loop arms is
\* positive (getTimeUntilNextSend), and a loop whose select has a ready case
\* takes it before that wait is over: a timer elapses only while neither the
\* stop channel nor the context is ready.  A Stop or a cancellation that
\* comes after the timer elapsed finds two cases ready.
PromptTimerFire(l) ==
    /\ stopChan = "open"
    /\ ~ctxDone
    /\ TimerFire(l)

PromptNext ==
    \/ Start
    \/ Stop
    \/ Cancel
    \/ Toggle
    \/ \E b \in BOOLEAN : SetEnabled(b)
    \/ \E l \in LoopIds : PromptTimerFire(l)
    \/ \E l \in LoopIds : LoopStep(l)

PromptSpec == Init /\ [][PromptNext]_vars

\* ---------------------------------------------------------- StopSpec
\* Start and Stop beside run-loops that run promptly.  When Stop closes the
\* stop channel, cut notes how far the sequence of each run-loop has got.
StopDuring ==
    /\ Alive
    /\ StopEffect
    /\ cut' = IF running /\ stopChan = "open"
              THEN [l \in LoopIds |->
                      IF loops[l].pc \in {"check", "call", "inflight", "sleep"}
                      THEN loops[l].calls ELSE -1]
              ELSE cut
    /\ UNCHANGED <<ctxDone, loops, nloops, force, nforce>>
    /\ UNCHANGED <<senderVars, botVars, timeVars, lockVars>>

StopNext ==
    \/ Start
    \/ StopDuring
    \/ \E l \in LoopIds : PromptTimerFire(l)
    \/ \E l \in LoopIds : LoopSelectStop(l)
    \/ \E l \in LoopIds : LoopSelectTimer(l)
    \/ \E l \in LoopIds : LoopCheck(l)
    \/ \E l \in LoopIds : LoopEnterSend(l)
    \/ \E l \in LoopIds : LoopEndSend(l)
    \/ \E l \in LoopIds : LoopWakeUp(l)

StopSpec == Init /\ [][StopNext]_vars

\* ---------------------------------------------------------- SpecTime
TicksPerDay == HoursPerDay * TicksPerHour
Times == 0..(MaxDays * TicksPerDay - 1)

\* The local zone (now.Location(), line 111).  Instants are ticks since the
\* local midnight of day 0.  zone[d] is the number of hours day d gains over
\* HoursPerDay: 0 on an ordinary day, 1 on the day the clocks are set back,
\* -1 on the day they are set forward.  Clocks change in the small hours,
\* before the target hour.
Days == 0..(MaxDays + 1)
NoChange == [d \in Days |-> 0]
Zones ==
    {NoChange} \cup {[NoChange EXCEPT ![d] = z] : d \in 1..(MaxDays - 1), z \in {-1, 1}}

DayLength(d) == (HoursPerDay + zone[d]) * TicksPerHour

RECURSIVE DayStart(_)
DayStart(d) == IF d = 0 THEN 0 ELSE DayStart(d - 1) + DayLength(d - 1)

DayOf(n) == CHOOSE d \in Days : DayStart(d) <= n /\ n < DayStart(d) + DayLength(d)

\* time.Date(now.Year(), now.Month(), now.Day(), hour, 0, 0, 0, now.Location())
\* for an instant n and an hour after the change of clocks: with no change
\* on the day of n it is (n \div TicksPerDay) * TicksPerDay + hour * TicksPerHour
DateAt(n, hour) == DayStart(DayOf(n)) + (hour + zone[DayOf(n)]) * TicksPerHour

getTimeUntilNextSendNoEqual(n) ==
    LET target == DateAt(n, TargetHour)
        next == IF n > target THEN target + HoursPerDay * TicksPerHour ELSE target
    IN  next - n

getTimeUntilNextSendNoRoll(n) == DateAt(n, TargetHour) - n

getTimeUntilNextSendAlwaysRoll(n) ==
    DateAt(n, TargetHour) + HoursPerDay * TicksPerHour - n

\* Scheduler.getTimeUntilNextSend, lines 107-124, with now = n
getTimeUntilNextSend(n) ==
    LET target == DateAt(n, TargetHour)
        next == IF n > target \/ n = target
                THEN target + HoursPerDay * TicksPerHour
                ELSE target
    IN  next - n

\* the scheduler reads the clock and computes the wait
Compute ==
    /\ timeUntil = <<>>
    /\ timeUntil' = <<getTimeUntilNextSend(now)>>
    /\ UNCHANGED <<now, zone, schedVars, senderVars, botVars, lockVars, histVars>>

\* time passes
Tick ==
    /\ now + 1 \in Times
    /\ now' = now + 1
    /\ timeUntil' = <<>>
    /\ UNCHANGED <<zone, schedVars, senderVars, botVars, lockVars, histVars>>

TimeInit ==
    /\ SchedInit
    /\ enabled = TRUE
    /\ webhookURL = "url"
    /\ lastSent = 0
    /\ BotIdle
    /\ now \in Times
    /\ timeUntil = <<>>
    /\ zone = NoChange

TimeNext == Compute \/ Tick

SpecTime == TimeInit /\ [][TimeNext]_vars

\* --------------------------------------------------------- ClockSpec
\* The run-loop under a clock, never stopped and never cancelled.  Start is
\* called at any instant of the window, in a zone with at most one change of
\* clocks.  Time passes only while every run-loop waits: on its timer, which
\* elapses the computed wait after it was armed, or in time.Sleep, which
\* lasts at least the duration asked.  Every other step of a cycle, a Send
\* call included (its HTTP clients time out after 30 seconds), takes less
\* than a tick.
TickMinutes == 60 \div TicksPerHour

\* the instant the timer armed by t elapses (lines 78-83, 100-102)
Due(t) == t.armed + getTimeUntilNextSend(t.armed)

\* time.Sleep(waitTime), line 156, is over
SleepOver(t) == (now - t.since) * TickMinutes >= t.wait

Waiting(t) ==
    \/ t.pc = "select" /\ ~t.fired /\ now < Due(t)
    \/ t.pc = "sleep" /\ ~SleepOver(t)

ClockTick ==
    /\ Alive
    /\ nloops >= 1
    /\ \A l \in 1..nloops : Waiting(loops[l])
    /\ now + 1 \in Times
    /\ now' = now + 1
    /\ UNCHANGED <<timeUntil, zone, schedVars, senderVars, botVars, lockVars, histVars>>

ClockTimerFire(l) ==
    /\ now >= Due(loops[l])
    /\ TimerFire(l)

ClockWakeUp(l) ==
    /\ SleepOver(loops[l])
    /\ LoopWakeUp(l)

ClockInit ==
    /\ SchedInit
    /\ enabled = TRUE
    /\ webhookURL = "url"
    /\ lastSent = 0
    /\ BotIdle
    /\ now \in Times
    /\ timeUntil = <<>>
    /\ zone \in Zones

ClockNext ==
    \/ Start
    \/ Toggle
    \/ ClockTick
    \/ \E l \in LoopIds : ClockTimerFire(l)
    \/ \E l \in LoopIds : LoopSelectTimer(l)
    \/ \E l \in LoopIds : LoopCheck(l)
    \/ \E l \in LoopIds : LoopEnterSend(l)
    \/ \E l \in LoopIds : LoopEndSend(l)
    \/ \E l \in LoopIds : ClockWakeUp(l)

ClockSpec == ClockInit /\ [][ClockNext]_vars

\* ---------------------------------------------------------- LockSpec
\* Start and Stop statement by statement, called by concurrent goroutines.
\* A caller's pc:
\*   "idle"    not in a call            "done"    its call returned
\*   "lock"    in s.mutex.Lock() (lines 33, 57)
\*   "guard"   holds the mutex, about to test s.running (lines 36, 60)
\*   "flag"    about to write s.running (lines 46, 65)
\*   "launch"  Start, about to launch the run-loop (line 49)
\*   "close"   Stop, about to close s.stopChan (line 64)
\*   "unlock"  about to return: the deferred Unlock (lines 34, 58)
\* waited records that the mutex was held when the caller asked for it.
\* ghost is the Scheduler of a program that runs each call in one step, in
\* the order in which the mutex was acquired; want is the result it gave.

\* Start (lines 32-53) and Stop (lines 56-73) run in one step on g
SeqCall(g, op) ==
    IF op = "Start"
    THEN IF g.running THEN [g |-> g, err |-> TRUE]
         ELSE IF ~IsEnabled THEN [g |-> g, err |-> FALSE]
         ELSE [g |-> [g EXCEPT !.running = TRUE, !.launched = g.launched + 1],
               err |-> FALSE]
    ELSE IF ~g.running THEN [g |-> g, err |-> TRUE]
         ELSE IF g.closed THEN [g |-> [g EXCEPT !.panicked = TRUE], err |-> FALSE]
         ELSE [g |-> [g EXCEPT !.closed = TRUE, !.running = FALSE], err |-> FALSE]

\* a goroutine calls Start or Stop and reaches s.mutex.Lock()
Call(c, op) ==
    /\ Alive
    /\ callers[c].pc \in {"idle", "done"}
    /\ ghost.calls < MaxCalls
    /\ callers' = [callers EXCEPT ![c] =
                     [IdleCaller EXCEPT !.pc = "lock", !.op = op, !.waited = mutex # 0]]
    /\ ghost' = [ghost EXCEPT !.calls = ghost.calls + 1]
    /\ UNCHANGED <<mutex, schedVars, senderVars, botVars, timeVars, histVars>>

AcquireNoExclusion(c) ==
    /\ Alive
    /\ callers[c].pc = "lock"
    /\ mutex' = c
    /\ LET r == SeqCall(ghost, callers[c].op)
       IN  /\ ghost' = r.g
           /\ callers' = [callers EXCEPT ![c].pc = "guard", ![c].want = r.err]
    /\ UNCHANGED <<schedVars, senderVars, botVars, timeVars, histVars>>

\* s.mutex.Lock() returns: the mutex was free
Acquire(c) ==
    /\ Alive
    /\ callers[c].pc = "lock"
    /\ mutex = 0
    /\ mutex' = c
    /\ LET r == SeqCall(ghost, callers[c].op)
       IN  /\ ghost' = r.g
           /\ callers' = [callers EXCEPT ![c].pc = "guard", ![c].want = r.err]
    /\ UNCHANGED <<schedVars, senderVars, botVars, timeVars, histVars>>

\* the tests of lines 36-44 (Start) and 60-62 (Stop)
Guard(c) ==
    /\ Alive
    /\ callers[c].pc = "guard"
    /\ callers' = [callers EXCEPT ![c] =
          IF @.op = "Start"
          THEN IF running THEN [@ EXCEPT !.pc = "unlock", !.err = TRUE]
               ELSE IF ~IsEnabled THEN [@ EXCEPT !.pc = "unlock", !.err = FALSE]
               ELSE [@ EXCEPT !.pc = "flag"]
          ELSE IF ~running THEN [@ EXCEPT !.pc = "unlock", !.err = TRUE]
               ELSE [@ EXCEPT !.pc = "close"]]
    /\ UNCHANGED <<mutex, ghost, schedVars, senderVars, botVars, timeVars, histVars>>

\* s.running = true (line 46)
StartFlag(c) ==
    /\ Alive
    /\ callers[c].pc = "flag" /\ callers[c].op = "Start"
    /\ running' = TRUE
    /\ callers' = [callers EXCEPT ![c].pc = "launch"]
    /\ UNCHANGED <<stopChan, panicked, ctxDone, loops, nloops, force, nforce, lastCall>>
    /\ UNCHANGED <<mutex, ghost, senderVars, botVars, timeVars, histVars>>

\* go s.schedulingRoutine(ctx), return nil (lines 49-52)
StartLaunch(c) ==
    /\ Alive
    /\ callers[c].pc = "launch"
    /\ nloops < MaxLoops
    /\ nloops' = nloops + 1
    /\ loops' = [loops EXCEPT ![nloops + 1] = Rearm(NoTask)]
    /\ callers' = [callers EXCEPT ![c].pc = "unlock", ![c].err = FALSE]
    /\ UNCHANGED <<running, stopChan, panicked, ctxDone, force, nforce, lastCall>>
    /\ UNCHANGED <<mutex, ghost, senderVars, botVars, timeVars, histVars>>

\* close(s.stopChan) (line 64)
StopClose(c) ==
    /\ Alive
    /\ callers[c].pc = "close"
    /\ IF stopChan = "closed"
       THEN /\ panicked' = TRUE
            /\ UNCHANGED <<stopChan, callers>>
       ELSE /\ stopChan' = "closed"
            /\ callers' = [callers EXCEPT ![c].pc = "flag"]
            /\ UNCHANGED panicked
    /\ UNCHANGED <<running, ctxDone, loops, nloops, force, nforce, lastCall>>
    /\ UNCHANGED <<mutex, ghost, senderVars, botVars, timeVars, histVars>>

\* s.running = false, return nil (lines 65-72)
StopFlag(c) ==
    /\ Alive
    /\ callers[c].pc = "flag" /\ callers[c].op = "Stop"
    /\ running' = FALSE
    /\ callers' = [callers EXCEPT ![c].pc = "unlock", ![c].err = FALSE]
    /\ UNCHANGED <<stopChan, panicked, ctxDone, loops, nloops, force, nforce, lastCall>>
    /\ UNCHANGED <<mutex, ghost, senderVars, botVars, timeVars, histVars>>

\* the deferred s.mutex.Unlock(); the call returns
Release(c) ==
    /\ Alive
    /\ callers[c].pc = "unlock"
    /\ mutex' = 0
    /\ callers' = [callers EXCEPT ![c].pc = "done"]
    /\ lastCall' = [op |-> callers[c].op, err |-> callers[c].err]
    /\ UNCHANGED <<running, stopChan, panicked, ctxDone, loops, nloops, force, nforce>>
    /\ UNCHANGED <<ghost, senderVars, botVars, timeVars, histVars>>

LockNext ==
    \E c \in CallerIds :
        \/ \E op \in {"Start", "Stop"} : Call(c, op)
        \/ Acquire(c)
        \/ Guard(c)
        \/ StartFlag(c)
        \/ StartLaunch(c)
        \/ StopClose(c)
        \/ StopFlag(c)
        \/ Release(c)

LockSpec == Init /\ [][LockNext]_vars

\* ---------------------------------------------------------- HeldSpec
\* LockSpec with IsRunning and with run-loops that run their cycles while
\* the calls are made.  An IsRunning caller's pc is "rlock" in
\* s.mutex.Lock() (line 165) and "read" when it holds the mutex and is about
\* to read s.running (line 167); val is the value it read.  Each caller
\* makes one call.
FirstCall(c, op) ==
    /\ callers[c].pc = "idle"
    /\ Call(c, op)

IsRunningCall(c) ==
    /\ Alive
    /\ callers[c].pc = "idle"
    /\ ghost.calls < MaxCalls
    /\ callers' = [callers EXCEPT ![c] =
                     [IdleCaller EXCEPT !.pc = "rlock", !.op = "IsRunning",
                                        !.waited = mutex # 0]]
    /\ ghost' = [ghost EXCEPT !.calls = ghost.calls + 1]
    /\ UNCHANGED <<mutex, schedVars, senderVars, botVars, timeVars, histVars>>

\* s.mutex.Lock() returns (line 165)
IsRunningLock(c) ==
    /\ Alive
    /\ callers[c].pc = "rlock"
    /\ mutex = 0
    /\ mutex' = c
    /\ callers' = [callers EXCEPT ![c].pc = "read"]
    /\ UNCHANGED <<ghost, schedVars, senderVars, botVars, timeVars, histVars>>

\* return s.running (line 167)
IsRunningRead(c) ==
    /\ Alive
    /\ callers[c].pc = "read"
    /\ callers' = [callers EXCEPT ![c].pc = "unlock", ![c].val = running]
    /\ UNCHANGED <<mutex, ghost, schedVars, senderVars, botVars, timeVars, histVars>>

HeldNext ==
    \/ \E c \in CallerIds : \E op \in {"Start", "Stop"} : FirstCall(c, op)
    \/ \E c \in CallerIds : Acquire(c)
    \/ \E c \in CallerIds : Guard(c)
    \/ \E c \in CallerIds : StartFlag(c)
    \/ \E c \in CallerIds : StartLaunch(c)
    \/ \E c \in CallerIds : StopClose(c)
    \/ \E c \in CallerIds : StopFlag(c)
    \/ \E c \in CallerIds : Release(c)
    \/ \E c \in CallerIds : IsRunningCall(c)
    \/ \E c \in CallerIds : IsRunningLock(c)
    \/ \E c \in CallerIds : IsRunningRead(c)
    \/ \E l \in LoopIds : PromptTimerFire(l)
    \/ \E l \in LoopIds : LoopSelectStop(l)
    \/ \E l \in LoopIds : LoopSelectTimer(l)
    \/ \E l \in LoopIds : LoopCheck(l)
    \/ \E l \in LoopIds : LoopEnterSend(l)
    \/ \E l \in LoopIds : LoopEndSend(l)
    \/ \E l \in LoopIds : LoopWakeUp(l)

HeldSpec == Init /\ [][HeldNext]_vars

\* ----------------------------------------------------------- BotSpec
\* main.go: bot.New, Bot.Start, wait for a signal, Bot.Stop.  botPhase is
\*   "new"       bot.New returned
\*   "open"      session.Open returned: the handlers receive commands
\*   "started"   scheduler.Start was called (Bot.Start line 107)
\*   "stopping"  scheduler.Stop was called (Bot.Stop line 117)
\*   "stopped"   the session is closed and main returned
\*   "failed"    Bot.Start returned an error and main exited (log.Fatalf)

\* Bot.Start line 94
BotOpen ==
    /\ botPhase = "new"
    /\ \E ok \in BOOLEAN : botPhase' = IF ok THEN "open" ELSE "failed"
    /\ UNCHANGED <<settings, file, handlers, toggledOn>>
    /\ UNCHANGED <<schedVars, senderVars, timeVars, lockVars, histVars>>

\* Bot.Start lines 99-109: registerCommands, then scheduler.Start
BotStart ==
    /\ botPhase = "open"
    /\ \E ok \in BOOLEAN :
        IF ok
        THEN /\ StartEffect
             /\ botPhase' = "started"
        ELSE /\ botPhase' = "failed"
             /\ UNCHANGED <<running, loops, nloops, lastCall>>
    /\ UNCHANGED <<stopChan, panicked, ctxDone, force, nforce>>
    /\ UNCHANGED <<settings, file, handlers, toggledOn>>
    /\ UNCHANGED <<senderVars, timeVars, lockVars, histVars>>

\* Bot.Stop line 117, after the signal
BotStop ==
    /\ botPhase = "started"
    /\ StopEffect
    /\ botPhase' = "stopping"
    /\ UNCHANGED <<ctxDone, loops, nloops, force, nforce>>
    /\ UNCHANGED <<settings, file, handlers, toggledOn>>
    /\ UNCHANGED <<senderVars, timeVars, lockVars, histVars>>

\* Bot.Stop lines 121-127 and main's return
BotExit ==
    /\ botPhase = "stopping"
    /\ botPhase' = "stopped"
    /\ UNCHANGED <<settings, file, handlers, toggledOn>>
    /\ UNCHANGED <<schedVars, senderVars, timeVars, lockVars, histVars>>

Serving == botPhase \in {"open", "started", "stopping"}

\* handleWebhookMessageCommand lines 413-420 (handleWebhookSlashCommand
\* lines 929-941) and Storage.ToggleDailyWebhookEnabled lines 108-111:
\* without a URL the handler answers and returns; else the stored flag flips
CmdToggle(h) ==
    /\ Serving
    /\ handlers[h].pc = "idle"
    /\ IF webhookURL = ""
       THEN UNCHANGED <<settings, handlers>>
       ELSE /\ settings' = ~settings
            /\ handlers' = [handlers EXCEPT ![h] =
                   [pc |-> "marshal", newState |-> ~settings, data |-> FALSE]]
    /\ UNCHANGED <<file, botPhase, toggledOn>>
    /\ UNCHANGED <<schedVars, senderVars, timeVars, lockVars, histVars>>

\* Storage.save lines 69-71: marshal the settings as they are now
CmdMarshal(h) ==
    /\ Serving
    /\ handlers[h].pc = "marshal"
    /\ handlers' = [handlers EXCEPT ![h].pc = "write", ![h].data = settings]
    /\ UNCHANGED <<settings, file, botPhase, toggledOn>>
    /\ UNCHANGED <<schedVars, senderVars, timeVars, lockVars, histVars>>

\* Storage.save lines 77-87: the write succeeds or fails; on failure the
\* handler answers with the error and returns (lines 421-424)
CmdWrite(h) ==
    /\ Serving
    /\ handlers[h].pc = "write"
    /\ \E ok \in BOOLEAN :
        IF ok
        THEN /\ file' = handlers[h].data
             /\ handlers' = [handlers EXCEPT ![h].pc = "set", ![h].data = FALSE]
        ELSE /\ handlers' = [handlers EXCEPT ![h] = IdleHandler]
             /\ UNCHANGED file
    /\ UNCHANGED <<settings, botPhase, toggledOn>>
    /\ UNCHANGED <<schedVars, senderVars, timeVars, lockVars, histVars>>

\* line 427 (953): dailyWebhook.SetEnabled(newState), then the answer
CmdSet(h) ==
    /\ Serving
    /\ handlers[h].pc = "set"
    /\ enabled' = handlers[h].newState
    /\ toggledOn' = handlers[h].newState
    /\ handlers' = [handlers EXCEPT ![h] = IdleHandler]
    /\ UNCHANGED <<settings, file, botPhase>>
    /\ UNCHANGED <<webhookURL, lastSent, schedVars, timeVars, lockVars, histVars>>

CmdStep(h) == CmdMarshal(h) \/ CmdWrite(h) \/ CmdSet(h)

\* bot.New lines 58-72: the settings are loaded from the file (or created
\* with the default, false) and copied into the Sender
BotInit ==
    /\ SchedInit
    /\ file \in BOOLEAN
    /\ settings = file
    /\ enabled = file
    /\ webhookURL \in {"", "url"}
    /\ lastSent = 0
    /\ handlers = [h \in HandlerIds |-> IdleHandler]
    /\ botPhase = "new"
    /\ toggledOn = FALSE
    /\ TimeIdle

BotLoopStep(l) ==
    \/ LoopSelectStop(l)
    \/ LoopSelectTimer(l)
    \/ LoopCheck(l)
    \/ LoopEnterSend(l)
    \/ LoopEndSend(l)
    \/ LoopWakeUp(l)

BotNext ==
    \/ BotOpen
    \/ BotStart
    \/ BotStop
    \/ BotExit
    \/ \E h \in HandlerIds : CmdToggle(h)
    \/ \E h \in HandlerIds : CmdStep(h)
    \/ \E l \in LoopIds : TimerFire(l)
    \/ \E l \in LoopIds : BotLoopStep(l)

BotSpec == BotInit /\ [][BotNext]_vars

\* The Go scheduler runs every runnable goroutine, main goes on to call
\* scheduler.Start, an armed timer elapses, a sleep and an HTTP exchange (30 s
\* timeout) end.  Nothing forces a user to send a command or a signal.
BotFairness ==
    /\ WF_vars(BotOpen)
    /\ WF_vars(BotStart)
    /\ \A h \in HandlerIds : WF_vars(CmdStep(h))
    /\ \A l \in LoopIds : WF_vars(TimerFire(l))
    /\ \A l \in LoopIds : WF_vars(BotLoopStep(l))

FairBotSpec == BotInit /\ [][BotNext]_vars /\ BotFairness

\* ============================================================ the claims

\* C1 (as stated; the code violates it).  After Start, Stop and a later
\* Start that launched a run-loop, with the context not cancelled, the new
\* run-loop stays alive: it has not returned.
C1_RestartedLoopStaysAlive ==
    (nloops >= 2 /\ running /\ ~ctxDone /\ ~panicked)
        => loops[nloops].pc \notin {"exitStop", "exitCtx"}

\* C2.  Start while running returns an error and changes nothing: running
\* stays true, no run-loop is launched and the existing loops, with their
\* armed timers, are untouched.
C2_StartWhileRunningRejected ==
    [][(Start /\ running) =>
          /\ lastCall' = [op |-> "Start", err |-> TRUE]
          /\ running'
          /\ nloops' = nloops
          /\ loops' = loops]_vars

C2_Witness ==
    /\ lastCall = [op |-> "Start", err |-> TRUE]
    /\ running
    /\ nloops = 1
    /\ loops[1].pc = "select"

\* C3.  Stop while not running returns an error, does not close the stop
\* channel, does not panic and leaves running false.
C3_StopWhileStoppedRejected ==
    [][(Stop /\ ~running) =>
          /\ lastCall' = [op |-> "Stop", err |-> TRUE]
          /\ stopChan' = stopChan
          /\ ~panicked'
          /\ ~running']_vars

C3_Witness ==
    /\ lastCall = [op |-> "Stop", err |-> TRUE]
    /\ ~running
    /\ stopChan = "closed"
    /\ ~panicked

\* C4.  Start while the Sender is disabled (flag false or no URL) returns
\* nil, leaves running false and launches no run-loop.
C4_StartWhileDisabledIsNoop ==
    [][(Start /\ ~running /\ (~enabled \/ webhookURL = "")) =>
          /\ lastCall' = [op |-> "Start", err |-> FALSE]
          /\ ~running'
          /\ nloops' = nloops
          /\ loops' = loops]_vars

C4_Witness ==
    /\ lastCall = [op |-> "Start", err |-> FALSE]
    /\ ~running
    /\ nloops = 0
    /\ enabled /\ webhookURL = ""

\* C5 (as stated; the code violates it).  Whenever the webhook command has
\* turned the feature on and the Sender is enabled, a scheduled cycle
\* eventually reaches its Send call, unless the feature is turned off again
\* or the bot shuts down first.
C5_EnabledByCommandEventuallySends ==
    (toggledOn /\ IsEnabled) ~>
        \/ \E l \in LoopIds : loops[l].pc \in {"call", "inflight", "sleep"}
        \/ ~IsEnabled
        \/ botPhase \in {"stopping", "stopped", "failed"}

\* C6 (as stated; the code violates it).  Every task launched by a
\* successful ForceSend has called Send at least once when it ends.
C6_ForceSendInvokesSend ==
    \A f \in ForceIds : force[f].pc = "done" => force[f].calls >= 1

\* C7.  ForceSend while the Sender is disabled returns an error and launches
\* no task: no goroutine that could call Send comes into being.
C7_ForceSendWhileDisabledRejected ==
    [][(ForceSend /\ (~enabled \/ webhookURL = "")) =>
          /\ lastCall' = [op |-> "ForceSend", err |-> TRUE]
          /\ nforce' = nforce
          /\ force' = force
          /\ loops' = loops]_vars

C7_Witness ==
    /\ lastCall = [op |-> "ForceSend", err |-> TRUE]
    /\ nforce = 0
    /\ \A f \in ForceIds : force[f] = NoTask
    /\ ~enabled

Computed == Len(timeUntil) = 1
TimeOfDay == now % TicksPerDay
TargetOfDay == TargetHour * TicksPerHour

\* C8 (as stated; the code violates it).  The computed wait is at least 0
\* and strictly less than 24 hours.
C8_WaitBelowDay ==
    Computed => (timeUntil[1] >= 0 /\ timeUntil[1] < TicksPerDay)

\* C8 (amended).  The computed wait is strictly positive and at most 24
\* hours, and it is 24 hours only when now is exactly the target instant.
C8_WaitPositiveAtMostDay ==
    Computed =>
        /\ timeUntil[1] > 0
        /\ timeUntil[1] <= TicksPerDay
        /\ (timeUntil[1] = TicksPerDay => TimeOfDay = TargetOfDay)

C8_Witness == timeUntil = <<TicksPerDay>>

InCycle(t) == t.pc \in {"check", "call", "inflight", "sleep"}

\* the instants at which the target hour strikes
TargetOn(d) == DayStart(d) + (TargetHour + zone[d]) * TicksPerHour
Triggers == {TargetOn(d) : d \in Days}
FirstTriggerAfter(a) ==
    CHOOSE T \in Triggers : T > a /\ \A U \in Triggers : U > a => T <= U

\* C11 (as stated; the code violates it).  A run-loop that is never stopped
\* or cancelled begins a cycle exactly at the first instant the target hour
\* strikes after its previous cycle began (after Start, for its first
\* cycle): one cycle for each trigger instant, none twice, none skipped, and
\* no cycle in between.
C11_OneCyclePerTrigger ==
    [][\A l \in LoopIds :
          (loops[l].pc = "select" /\ loops'[l].pc = "check") =>
              now = FirstTriggerAfter(IF loops[l].at < 0 THEN loops[l].armed
                                      ELSE loops[l].at)]_vars

\* C12.  A cycle whose every attempt failed made exactly maxRetries (3) Send
\* calls, no sequence ever makes more, and the step that ends it returns no
\* error to any caller, leaves running as it was and puts the run-loop back
\* at its select.
C12_AllFailedCycle ==
    /\ [](\A l \in LoopIds : loops[l].calls <= maxRetries)
    /\ [][\A l \in LoopIds :
            (loops[l].outcome = "none" /\ loops'[l].outcome = "failed") =>
                /\ loops'[l].calls = maxRetries
                /\ loops'[l].pc = "select"
                /\ running' = running
                /\ lastCall' = lastCall
                /\ ~panicked']_vars

C12_Witness ==
    /\ loops[1].outcome = "failed"
    /\ loops[1].calls = maxRetries
    /\ loops[1].pc = "select"
    /\ running

\* C13.  The sleep a sequence enters after its failed attempt number k lasts
\* k * BackoffMinutes (5 minutes after the first, 10 after the second); it
\* sleeps only after attempts 1 .. maxRetries - 1, and a sequence that is not
\* sleeping, a finished one included, has no wait pending.
C13_BackoffGrowsLinearly ==
    \A l \in LoopIds :
        /\ loops[l].pc = "sleep" =>
              /\ loops[l].calls \in 1..(maxRetries - 1)
              /\ loops[l].outcome = "none"
              /\ loops[l].wait = loops[l].calls * BackoffMinutes
        /\ loops[l].pc # "sleep" => loops[l].wait = 0

C13_Witness ==
    /\ loops[1].pc = "sleep"
    /\ loops[1].calls = maxRetries - 1
    /\ loops[1].wait = (maxRetries - 1) * BackoffMinutes

\* C14.  A cycle stops at its first successful attempt: when attempt k
\* succeeds the cycle has made exactly k Send calls, and it makes no further
\* Send call, nor sleeps, after the success.
C14_StopsAtFirstSuccess ==
    /\ [](\A l \in LoopIds :
            loops[l].outcome = "sent" =>
                /\ loops[l].calls = loops[l].i + 1
                /\ loops[l].calls \in 1..maxRetries
                /\ ~InCycle(loops[l]))
    /\ [][\A l \in LoopIds :
            (loops[l].outcome = "none" /\ loops'[l].outcome = "sent") =>
                /\ loops[l].pc = "inflight"
                /\ loops'[l].calls = loops[l].calls
                /\ loops'[l].pc = "select"]_vars

C14_Witness ==
    /\ loops[1].outcome = "sent"
    /\ loops[1].calls = 2
    /\ loops[1].pc = "select"

\* C15.  A cycle whose enabled check finds the Sender disabled makes no Send
\* call and surfaces no error, and the run-loop goes on: the timer is armed
\* again, the loop is back at its select and running is untouched.
C15_DisabledCycleSkipped ==
    [][\A l \in LoopIds :
          (loops[l].pc = "check" /\ loops'[l].pc # "check"
                /\ (~enabled \/ webhookURL = "")) =>
              /\ loops'[l].pc = "select"
              /\ ~loops'[l].fired
              /\ loops'[l].calls = 0
              /\ loops'[l].outcome = "skipped"
              /\ running' = running
              /\ lastCall' = lastCall]_vars

C15_Witness ==
    /\ loops[1].outcome = "skipped"
    /\ loops[1].calls = 0
    /\ loops[1].pc = "select"
    /\ running
    /\ ~enabled

\* C16.  Whatever the interleaving of concurrent Start and Stop calls, each
\* call returns what it returns when the calls run one at a time in the order
\* in which they took the mutex; whenever no call holds the mutex, running,
\* the stop channel and the number of run-loops launched are those of that
\* sequential run; and when only Starts were called on the new, enabled
\* scheduler, exactly one of those that returned launched a run-loop.
C16_StartStopLinearizable ==
    /\ \A c \in CallerIds :
          callers[c].pc \in {"unlock", "done"} => callers[c].err = callers[c].want
    /\ (mutex = 0 /\ ~panicked) =>
          /\ running = ghost.running
          /\ (stopChan = "closed") = ghost.closed
          /\ nloops = ghost.launched
          /\ ~ghost.panicked
    /\ panicked => ghost.panicked
    /\ LET returned == {c \in CallerIds : callers[c].pc = "done"}
       IN  (/\ IsEnabled
            /\ returned # {}
            /\ returned = {c \in CallerIds : callers[c].op # "none"}
            /\ ghost.calls = Cardinality(returned)
            /\ \A c \in returned : callers[c].op = "Start") =>
               /\ nloops = 1
               /\ running
               /\ Cardinality({c \in returned : ~callers[c].err}) = 1

C16_Witness ==
    /\ \A c \in {1, 2} : callers[c].pc = "done" /\ callers[c].op = "Start"
    /\ ~callers[1].err
    /\ callers[2].err /\ callers[2].waited
    /\ ghost.calls = 2
    /\ nloops = 1
    /\ running

C18_ForceSendLeavesSchedule ==
    [][(ForceSend \/ \E f \in ForceIds : ForceStep(f)) =>
          UNCHANGED <<running, stopChan, ctxDone, loops, nloops>>]_vars

C18_Witness ==
    /\ lastCall = [op |-> "ForceSend", err |-> FALSE]
    /\ force[1].pc = "done"
    /\ running
    /\ loops[1].pc = "select"
    /\ ~loops[1].fired

\* C19 (as stated; the code violates it).  No scheduled cycle begins once
\* the stop channel is closed or the context is cancelled.
C19_NoCycleAfterStopOrCancel ==
    [][\A l \in LoopIds :
          (loops[l].pc = "select" /\ loops'[l].pc = "check") =>
              (stopChan = "open" /\ ~ctxDone)]_vars

\* C20.  A run-loop returns only with the stop channel closed or the context
\* cancelled, and the step that ends a cycle, whatever its outcome, arms the
\* timer again and puts the loop back at its select.
C20_ExitOnlyOnStopOrCancel ==
    /\ [](\A l \in LoopIds :
            /\ loops[l].pc = "exitStop" => stopChan = "closed"
            /\ loops[l].pc = "exitCtx" => ctxDone)
    /\ [][\A l \in LoopIds :
            (loops[l].outcome = "none" /\ loops'[l].outcome # "none") =>
                /\ loops'[l].pc = "select"
                /\ ~loops'[l].fired]_vars

C20_Witness ==
    /\ loops[1].outcome = "failed"
    /\ loops[1].pc = "select"
    /\ stopChan = "open"
    /\ ~ctxDone

\* C29.  A SendDailyWebhook call that begins while the Sender is disabled
\* returns at once: nothing is fetched or posted (the call is never in
\* flight, lastSent stays), yet the call is counted and followed by the
\* backoff wait of its attempt, or by the final failure when it was the last.
C29_DisabledSendRefused ==
    [][\A l \in LoopIds :
          (loops[l].pc = "call" /\ loops'[l] # loops[l]
                /\ ~(enabled /\ webhookURL # "")) =>
              /\ loops'[l].calls = loops[l].calls + 1
              /\ loops'[l].pc # "inflight"
              /\ lastSent' = lastSent
              /\ IF loops[l].i < maxRetries - 1
                 THEN /\ loops'[l].pc = "sleep"
                      /\ loops'[l].wait = (loops[l].i + 1) * BackoffMinutes
                 ELSE /\ loops'[l].outcome = "failed"
                      /\ loops'[l].calls = maxRetries]_vars

C29_Witness ==
    /\ loops[1].pc = "sleep"
    /\ loops[1].refused
    /\ loops[1].calls = 2
    /\ loops[1].wait = 2 * BackoffMinutes
    /\ ~enabled
    /\ lastSent = 0

\* C24.  IsEnabled is true exactly when the toggle is on and a URL is
\* configured, as of the step that consults it: Start launches a run-loop
\* on a stopped scheduler, a cycle or a forced sequence passes its check, and
\* ForceSend returns nil, exactly then; SetEnabled(b) leaves the toggle at
\* b and Toggle flips it, and neither touches the URL.
C24_IsEnabledIsToggleAndURL ==
    [][/\ (Start /\ ~running) =>
              ((nloops' = nloops + 1) <=> (enabled /\ webhookURL # ""))
       /\ ForceSend =>
              (lastCall'.err <=> ~(enabled /\ webhookURL # ""))
       /\ \A l \in LoopIds :
              (loops[l].pc = "check" /\ loops'[l].pc # "check") =>
                  ((loops'[l].pc = "call") <=> (enabled /\ webhookURL # ""))
       /\ \A f \in ForceIds :
              (force[f].pc = "check" /\ force'[f].pc # "check") =>
                  ((force'[f].pc = "call") <=> (enabled /\ webhookURL # ""))
       /\ \A b \in BOOLEAN :
              SetEnabled(b) => (enabled' = b /\ webhookURL' = webhookURL)
       /\ Toggle => (enabled' = ~enabled /\ webhookURL' = webhookURL)]_vars

C24_Witness ==
    /\ lastCall = [op |-> "ForceSend", err |-> TRUE]
    /\ ~enabled
    /\ webhookURL = "url"
    /\ running

\* C25 (as stated; the code violates it).  No sequence of Start, Stop and
\* cancellation makes a Stop call close the closed stop channel: the process
\* never panics.
C25_StopNeverPanics == ~panicked

\* C26 (as stated; the code violates it).  running is true exactly when a
\* run-loop launched by Start has not returned.
C26_RunningIffLoopAlive ==
    running <=> (\E l \in 1..nloops : loops[l].pc \notin {"exitStop", "exitCtx"})

\* C30.  lastSent is written only by the step in which a Send call ends
\* with success (the sequence logs "sent"): a Send call that ends with an
\* error or is refused, SetEnabled and Toggle leave it as it was.
C30_LastSentOnlyOnSuccess ==
    [][/\ lastSent' # lastSent =>
              \/ \E l \in LoopIds :
                    loops[l].pc = "inflight" /\ loops'[l].outcome = "sent"
              \/ \E f \in ForceIds :
                    force[f].pc = "inflight" /\ force'[f].outcome = "sent"
       /\ \A l \in LoopIds :
              (loops[l].pc \in {"call", "inflight"} /\ loops'[l] # loops[l]
                    /\ loops'[l].outcome # "sent") => lastSent' = lastSent
       /\ \A f \in ForceIds :
              (force[f].pc \in {"call", "inflight"} /\ force'[f] # force[f]
                    /\ force'[f].outcome # "sent") => lastSent' = lastSent
       /\ (Toggle \/ \E b \in BOOLEAN : SetEnabled(b)) => lastSent' = lastSent]_vars

C30_Witness ==
    /\ lastSent = 1
    /\ force[1].outcome = "sent"
    /\ loops[1].outcome = "failed"

\* C27 (as stated; the code violates it).  Once every webhook command has
\* completed, the Sender's enabled flag equals the DailyWebhookEnabled
\* setting of the storage.
C27_FlagEqualsSetting ==
    (\A h \in HandlerIds : handlers[h].pc = "idle") => enabled = settings

\* C28 (as stated; the code violates it).  When the write of the settings
\* file fails, the toggle returns with the in-memory setting at the value it
\* had before the call, the negation of the value the call computed.
C28_FailedSaveRestoresSetting ==
    [][\A h \in HandlerIds :
          (handlers[h].pc = "write" /\ handlers'[h].pc = "idle") =>
              settings' = ~handlers[h].newState]_vars

\* C21.  Stop called while a cycle is in its sequence does not interrupt it:
\* Stop leaves the run-loop as it is, the sequence goes on step by step to
\* its end (a sleep ends in the next attempt, an attempt is made while
\* running is false), and the run-loop has returned only with the sequence
\* finished.
C21_StopDoesNotInterrupt ==
    /\ [](\A l \in LoopIds :
            (cut[l] >= 0 /\ loops[l].pc \in {"exitStop", "exitCtx"}) =>
                loops[l].outcome \in {"sent", "failed", "skipped"})
    /\ [][/\ StopDuring => loops' = loops
          /\ \A l \in LoopIds :
               (cut[l] >= 0 /\ InCycle(loops[l]) /\ loops'[l] # loops[l]) =>
                   /\ loops'[l].pc \notin {"exitStop", "exitCtx"}
                   /\ loops[l].pc = "sleep" => loops'[l].pc = "call"
                   /\ loops[l].pc = "call" => loops'[l].calls = loops[l].calls + 1
                   /\ running' = running]_vars

C21_Witness ==
    /\ cut[1] = 1
    /\ loops[1].pc = "exitStop"
    /\ loops[1].outcome = "failed"
    /\ loops[1].calls = maxRetries
    /\ ~running

\* C22 (as stated; the code violates it).  After a Stop that came during a
\* cycle, the cycle starts no new backoff wait and makes at most one further
\* Send call.
C22_StopBoundsTheCycle ==
    /\ [](\A l \in LoopIds : cut[l] >= 0 => loops[l].calls <= cut[l] + 1)
    /\ [][\A l \in LoopIds :
            (cut[l] >= 0 /\ loops[l].pc # "sleep") => loops'[l].pc # "sleep"]_vars

\* the next statement of the caller holding the mutex can run
HolderCanStep(c) ==
    \/ ENABLED Guard(c)
    \/ ENABLED StartFlag(c)
    \/ ENABLED StartLaunch(c)
    \/ ENABLED StopClose(c)
    \/ ENABLED StopFlag(c)
    \/ ENABLED IsRunningRead(c)
    \/ ENABLED Release(c)

\* C23.  The mutex is held only by a caller of Start, Stop or IsRunning that
\* is at a flag test or update, never by a task that sends or sleeps; with
\* tasks inside Send or asleep, the holder's next statement can always run
\* and, the mutex free, a caller waiting in Lock can take it.
C23_LockNotHeldAcrossSend ==
    /\ mutex \in {0} \cup CallerIds
    /\ mutex # 0 =>
          callers[mutex].pc \in {"guard", "read", "flag", "launch", "close", "unlock"}
    /\ (~panicked
          /\ \E l \in LoopIds : loops[l].pc \in {"inflight", "sleep"}) =>
             /\ mutex # 0 => HolderCanStep(mutex)
             /\ \A c \in CallerIds :
                  (mutex = 0 /\ callers[c].pc = "lock") => ENABLED Acquire(c)
             /\ \A c \in CallerIds :
                  (mutex = 0 /\ callers[c].pc = "rlock") => ENABLED IsRunningLock(c)

C23_Witness ==
    /\ loops[1].pc = "inflight"
    /\ mutex = 2
    /\ callers[2].op = "Stop" /\ callers[2].pc = "unlock" /\ ~callers[2].err
    /\ callers[1].op = "Start" /\ callers[1].pc = "done"
    /\ ~running

====
